---- MODULE Spec2Model ----
(***************************************************************************)
(* Correspondence extraction of Video2mesh/pose_refinement.py:             *)
(*   - PoseOptimiser.sample_frame_pairs       (frame pair sampling)         *)
(*   - FeatureExtractor._get_image_features   (per-pair pipeline)           *)
(*   - FeatureExtractor.extract_feature_points (aggregation and statistics) *)
(*   - FeatureExtractor.__init__              (validation of the settings)  *)
(* and the projections of Video2mesh/geometry.py:                          *)
(*   - world2image, image2world, point_cloud_from_depth                     *)
(***************************************************************************)
EXTENDS Integers, Sequences, FiniteSets, TLC

\* Largest frame count given to sample_frame_pairs.
MaxFrames == 18

\* Most key points SIFT detects in one frame (also the width of a frame in pixels).
MaxKp == 6

\* Most anomalies (invalid depth pixels, ambiguous or crossed matches, RANSAC
\* outliers, a failed homography fit) in the data of one frame pair.
MaxDefects == 2

\* Largest frame count and longest frame_pairs list given to extract_feature_points.
MaxAggFrames == 5
MaxPairs == 2

\* Largest descriptor distance the matcher reports.
MaxDistance == 90

VARIABLES
    pc,                     \* position of the modelled call
    num_frames,             \* dataset.num_frames
    frame_sampling_mode,    \* argument of sample_frame_pairs
    frame_pairs,            \* list returned by sample_frame_pairs / FeatureExtractor.frame_pairs
    min_features,           \* FeatureExtractor.min_features
    depth_maps,             \* FeatureExtractor.depth_maps: frame -> (<<row, col>> -> depth)
    feature_set,            \* value returned by the last _get_image_features call
    calls,                  \* library calls made by the last _get_image_features call, in order
    results,                \* frame pair -> value its _get_image_features call returned
    arrival,                \* order in which tqdm_imap handed the results to the loop
    index_i, points_i, depth_i,     \* FeatureData of the i-side
    index_j, points_j, depth_j,     \* FeatureData of the j-side
    num_good_frame_pairs,
    stats,                  \* what _print_results_stats computed
    args,                   \* arguments of the modelled constructor or geometry call
    max_features,           \* FeatureExtractor.max_features
    warnings,               \* advisory warnings issued by FeatureExtractor.__init__
    image,                  \* what world2image returned
    back_projected,         \* arguments point_cloud_from_depth gave to image2world
    world                   \* what image2world or point_cloud_from_depth returned

sampler_vars == <<num_frames, frame_sampling_mode, frame_pairs>>
extractor_vars == <<min_features, depth_maps>>
config_vars == <<args, max_features, warnings>>
geometry_vars == <<image, back_projected, world>>
pair_vars == <<feature_set, calls>>
aggregate_vars == <<results, arrival, index_i, points_i, depth_i, index_j, points_j, depth_j,
                    num_good_frame_pairs, stats>>

vars == <<pc, sampler_vars, extractor_vars, pair_vars, aggregate_vars, config_vars,
          geometry_vars>>

None == [type |-> "NoneType"]

Elements(seq) == {seq[k] : k \in DOMAIN seq}

\* The extractor was constructed with the default max_features and without warnings.
DefaultConfig == args = None /\ max_features = None /\ warnings = {}

\* No geometry function was called.
NoGeometry == image = None /\ back_projected = None /\ world = None

(***************************************************************************)
(* FrameSamplingMode and PoseOptimiser.sample_frame_pairs                  *)
(***************************************************************************)
EXHAUSTIVE == "EXHAUSTIVE"
CONSECUTIVE == "CONSECUTIVE"
HIERARCHICAL == "HIERARCHICAL"

FrameSamplingMode == {EXHAUSTIVE, CONSECUTIVE, HIERARCHICAL}

\* int(np.floor(np.log2(n))) for n >= 1
RECURSIVE floor_log2(_)
floor_log2(n) == IF n <= 1 THEN 0 ELSE 1 + floor_log2(n \div 2)

\* 1 << level
RECURSIVE shl1(_)
shl1(level) == IF level = 0 THEN 1 ELSE 2 * shl1(level - 1)

\* Mutant of exhaustive_row: the inner loop stops one frame early.
exhaustive_row_short(i, n) == [k \in 1..(n - 2 - i) |-> <<i, i + k>>]

\* for j in range(i + 1, n): append (i, j)
exhaustive_row(i, n) == [k \in 1..(n - 1 - i) |-> <<i, i + k>>]

\* for i in range(n): <inner loop>
RECURSIVE sample_exhaustive(_, _)
sample_exhaustive(i, n) ==
    IF i >= n THEN <<>>
    ELSE exhaustive_row(i, n) \o sample_exhaustive(i + 1, n)

\* Mutant of sample_consecutive: the loop runs over range(n) instead of range(n - 1).
RECURSIVE sample_consecutive_long(_, _)
sample_consecutive_long(i, n) ==
    IF i >= n THEN <<>>
    ELSE << <<i, i + 1>> >> \o sample_consecutive_long(i + 1, n)

\* for i in range(n - 1): append (i, i + 1)
RECURSIVE sample_consecutive(_, _)
sample_consecutive(i, n) ==
    IF i >= n - 1 THEN <<>>
    ELSE << <<i, i + 1>> >> \o sample_consecutive(i + 1, n)

\* Mutant of sample_level: the guard "end >= num_frames" is off by one.
RECURSIVE sample_level_off_by_one(_, _, _)
sample_level_off_by_one(start, step, n) ==
    IF start >= n THEN <<>>
    ELSE LET end == start + step
         IN  (IF end > n THEN <<>> ELSE << <<start, end>> >>)
                 \o sample_level_off_by_one(start + step, step, n)

\* for start in range(0, n, step): end = start + step; skip if end >= n
RECURSIVE sample_level(_, _, _)
sample_level(start, step, n) ==
    IF start >= n THEN <<>>
    ELSE LET end == start + step
         IN  (IF end >= n THEN <<>> ELSE << <<start, end>> >>)
                 \o sample_level(start + step, step, n)

\* Mutant of sample_hierarchical: the level loop stops one level early.
RECURSIVE sample_hierarchical_short(_, _, _)
sample_hierarchical_short(level, max_level, n) ==
    IF level >= max_level /\ level > 0 THEN <<>>
    ELSE sample_level(0, shl1(level), n)
             \o sample_hierarchical_short(level + 1, max_level, n)

\* for level in range(max_level + 1): step = 1 << level; ...
RECURSIVE sample_hierarchical(_, _, _)
sample_hierarchical(level, max_level, n) ==
    IF level > max_level THEN <<>>
    ELSE sample_level(0, shl1(level), n)
             \o sample_hierarchical(level + 1, max_level, n)

sample_frame_pairs(n, mode) ==
    IF mode = EXHAUSTIVE THEN sample_exhaustive(0, n)
    ELSE IF mode = CONSECUTIVE THEN sample_consecutive(0, n)
    ELSE sample_hierarchical(0, floor_log2(n - 1), n)

(***************************************************************************)
(* Data of the feature extractor.  Pixel coordinates of key points are kept *)
(* in half pixels (SIFT gives sub-pixel positions); depths and descriptor   *)
(* distances are integers.  Python indices are 0-based, sequences 1-based.  *)
(***************************************************************************)

\* FeatureData and FeatureSet named tuples
FeatureData(index, points, depth) == [index |-> index, points |-> points, depth |-> depth]

FeatureSet(frame_i, frame_j) == [frame_i |-> frame_i, frame_j |-> frame_j]

\* an exception left the call
Raised == [type |-> "raised"]

IsFeatureSet(r) == r # None /\ r # Raised

\* Python's round() of x2/2, x2 >= 0: to the nearest integer, a tie to the even one.
py_round(x2) ==
    IF x2 % 2 = 0 THEN x2 \div 2
    ELSE IF (x2 \div 2) % 2 = 0 THEN x2 \div 2 ELSE x2 \div 2 + 1

Min(a, b) == IF a < b THEN a ELSE b

\* depth_maps[index][row, col]
depth_at(index, row, col) == depth_maps[index][<<row, col>>]

\* The float 0.7 is the IEEE-754 double 0xB333333333333 / 2^52.  Its 52-bit numerator
\* in limbs of 13 bits, the least significant first.
DoubleLimb == 8192
Significand_0_7 == <<4915, 6553, 3276, 5734>>

\* The exact product 0xB333333333333 * d in limbs: the carry into limb k and limb k;
\* carry_into(d, 5) is the part of the product from bit 52 up.
RECURSIVE carry_into(_, _)
carry_into(d, k) ==
    IF k = 1 THEN 0
    ELSE (Significand_0_7[k - 1] * d + carry_into(d, k - 1)) \div DoubleLimb

limb(d, k) == (Significand_0_7[k] * d + carry_into(d, k)) % DoubleLimb

\* floor(0.7 * d) for the float 0.7 and an integer-valued float d >= 0: the exact
\* product is rounded to the 53 significant bits of a double, a tie to the even one.
floor_times_0_7(d) ==
    LET top == carry_into(d, 5)
        shift == floor_log2(top)        \* bits of the product beyond the 53rd
        unit == shl1(shift)
        rest == limb(d, 1) % unit
        odd == (limb(d, 1) \div unit) % 2 = 1
        round_up == 2 * rest > unit \/ (2 * rest = unit /\ odd)
        carries == /\ limb(d, 1) \div unit = DoubleLimb \div unit - 1
                   /\ \A k \in 2..4 : limb(d, k) = DoubleLimb - 1
    IN  IF round_up /\ carries THEN top + 1 ELSE top

\* floor_times_0_7 tabulated for every distance the matcher reports
floor_times_0_7_of == [d \in 0..MaxDistance |-> floor_times_0_7(d)]

\* m.distance > 0.7 * n.distance, the distances integer-valued floats
ratio_test_fails(m, n) == m.distance > floor_times_0_7_of[n.distance]

\* the_depth_i == 0.0 or the_depth_j == 0.0
depth_is_missing(the_depth_i, the_depth_j) == the_depth_i = 0 \/ the_depth_j = 0

NoMatches == [points_i |-> <<>>, points_j |-> <<>>, depth_i |-> <<>>, depth_j |-> <<>>]

\* The loop of _filter_matches from candidate k on (matches_mask only feeds the
\* visualisation and is left out).
RECURSIVE filter_matches_from(_, _, _, _, _, _)
filter_matches_from(k, i, j, key_points_i, key_points_j, matches) ==
    IF k > Len(matches) THEN NoMatches
    ELSE LET m == matches[k].m
             n == matches[k].n
             rest == filter_matches_from(k + 1, i, j, key_points_i, key_points_j, matches)
             point_i == key_points_i[m.queryIdx + 1].pt
             the_depth_i == depth_at(i, py_round(point_i[2]), py_round(point_i[1]))
             point_j == key_points_j[m.trainIdx + 1].pt
             the_depth_j == depth_at(j, py_round(point_j[2]), py_round(point_j[1]))
         IN  IF ratio_test_fails(m, n) THEN rest
             ELSE IF depth_is_missing(the_depth_i, the_depth_j) THEN rest
             ELSE [points_i |-> <<point_i>> \o rest.points_i,
                   points_j |-> <<point_j>> \o rest.points_j,
                   depth_i |-> <<the_depth_i>> \o rest.depth_i,
                   depth_j |-> <<the_depth_j>> \o rest.depth_j]

filter_matches(i, j, key_points_i, key_points_j, matches) ==
    filter_matches_from(1, i, j, key_points_i, key_points_j, matches)

\* numpy boolean indexing: array[is_inlier]
RECURSIVE compress(_, _, _)
compress(array, is_inlier, k) ==
    IF k > Len(array) THEN <<>>
    ELSE (IF is_inlier[k] THEN <<array[k]>> ELSE <<>>) \o compress(array, is_inlier, k + 1)

\* _filter_matches_ransac, given the mask cv2.findHomography returned
filter_matches_ransac(points, mask) ==
    LET is_inlier == [k \in DOMAIN mask |-> mask[k] > 0]
    IN  [points_i |-> compress(points.points_i, is_inlier, 1),
         points_j |-> compress(points.points_j, is_inlier, 1),
         depth_i |-> compress(points.depth_i, is_inlier, 1),
         depth_j |-> compress(points.depth_j, is_inlier, 1)]

\* Mutant of too_few: the comparison with min_features is off by one.
too_few_off_by_one(count) == count < min_features - 1

\* len(...) < self.min_features
too_few(count) == count < min_features

\* Mutant of fewest_key_points: only the first frame is looked at.
fewest_key_points_first_only(key_points_i, key_points_j) == Len(key_points_i)

\* min(len(key_points_i), len(key_points_j))
fewest_key_points(key_points_i, key_points_j) == Min(Len(key_points_i), Len(key_points_j))

\* _get_image_features(frame_pair).  cv holds what the OpenCV calls give for this
\* pair: key_points_i and key_points_j (SIFT), matches (knnMatch, k = 2) and
\* findHomography (the mask for each number of points; when no homography is found
\* the mask is None and mask.flatten() raises).  The result is the returned value and
\* the calls made, in order: <<"detectAndCompute", frame, number of key points>>,
\* <<"knnMatch", i, j>>, <<"findHomography", number of points, 0>>,
\* <<"save_matches_visualisation", frame_accepted, 0>>.
get_image_features(frame_pair, cv) ==
    LET i == frame_pair[1]
        j == frame_pair[2]
        key_points_i == cv.key_points_i
        key_points_j == cv.key_points_j
        detect == << <<"detectAndCompute", i, Len(key_points_i)>>,
                     <<"detectAndCompute", j, Len(key_points_j)>> >>
        match == << <<"knnMatch", i, j>> >>
        filtered == filter_matches(i, j, key_points_i, key_points_j, cv.matches)
        ransac == << <<"findHomography", Len(filtered.points_i), 0>> >>
        viz(frame_accepted) == << <<"save_matches_visualisation", frame_accepted, 0>> >>
        homography == cv.findHomography[Len(filtered.points_i)]
        inliers == filter_matches_ransac(filtered, homography.mask)
    IN  IF too_few(fewest_key_points(key_points_i, key_points_j))
        THEN [ret |-> None, calls |-> detect]
        ELSE IF too_few(Len(filtered.points_i))
        THEN [ret |-> None, calls |-> detect \o match \o viz(0)]
        ELSE IF homography.mask_is_None
        THEN [ret |-> Raised, calls |-> detect \o match \o ransac]
        ELSE IF too_few(Len(inliers.points_i))
        THEN [ret |-> None, calls |-> detect \o match \o ransac \o viz(0)]
        ELSE [ret |-> FeatureSet(FeatureData(i, inliers.points_i, inliers.depth_i),
                                 FeatureData(j, inliers.points_j, inliers.depth_j)),
              calls |-> detect \o match \o ransac \o viz(1)]

(***************************************************************************)
(* What the dataset and OpenCV can hand to the extractor.  A frame is one  *)
(* pixel row of MaxKp columns; by default every depth is positive          *)
(* (default_depth), key point q of a frame lies in column q - 1, and the q-th       *)
(* key point of frame i matches the q-th of frame j unambiguously.  The     *)
(* inputs explored differ from this default in at most MaxDefects places.   *)
(***************************************************************************)

\* program constant: the least min_features the constructor accepts
MinFeaturesFloor == 5

Pixels == {<<0, col>> : col \in 0..MaxKp - 1}

\* the valid depth of column col of frame f
default_depth(f, col) == 10 * f + col + 1

\* The subsets of S with at most k elements.
RECURSIVE UpTo(_, _)
UpTo(S, k) ==
    IF k <= 0 THEN {{}}
    ELSE LET P == UpTo(S, k - 1) IN P \cup {T \cup {x} : T \in P, x \in S}

\* Invalid pixels: <<"depth", frame, column, value>>, value zero or negative.
DepthDefects(frames) == {<<"depth", f, col, v>> : f \in frames, col \in 0..MaxKp - 1, v \in {0, -1}}

LibraryDefects ==
    {<<kind, k, 0, 0>> : kind \in {"ambiguous", "crossed", "outlier"}, k \in 1..MaxKp}
        \cup {<<"nohomography", 0, 0, 0>>}

\* dataset.depth_dataset[f]
depth_map(D, f) ==
    [p \in Pixels |-> IF <<"depth", f, p[2], 0>> \in D THEN 0
                      ELSE IF <<"depth", f, p[2], -1>> \in D THEN -1
                      ELSE default_depth(f, p[2])]

InvalidPixels(maps) ==
    {<<f, p>> \in (DOMAIN maps) \X Pixels : maps[f][p] # default_depth(f, p[2])}

\* sift.detectAndCompute: count key points, at half-pixel positions whose
\* rounded column is q - 1
detectAndCompute(count) == [q \in 1..count |-> [pt |-> <<2 * (q - 1) + (q % 2), 0>>]]

\* matcher.knnMatch(descriptors_i, descriptors_j, k=2): one (m, n) per key point of
\* frame i that has two neighbours in frame j, m.distance <= n.distance
knnMatch(count_i, count_j, L) ==
    [k \in 1..(IF count_j < 2 THEN 0 ELSE count_i) |->
        LET own == (k - 1) % count_j
            other == k % count_j
            crossed == <<"crossed", k, 0, 0>> \in L
        IN  [m |-> [distance |-> IF <<"ambiguous", k, 0, 0>> \in L THEN 25 ELSE 10,
                    queryIdx |-> k - 1,
                    trainIdx |-> IF crossed THEN other ELSE own],
             n |-> [distance |-> 30,
                    queryIdx |-> k - 1,
                    trainIdx |-> IF crossed THEN own ELSE other]]]

\* cv2.findHomography(points_i, points_j, cv2.RANSAC)[1] for num_points points
findHomography(L) ==
    [num_points \in 0..MaxKp |->
        [mask_is_None |-> <<"nohomography", 0, 0, 0>> \in L,
         mask |-> [p \in 1..num_points |-> IF <<"outlier", p, 0, 0>> \in L THEN 0 ELSE 1]]]

cv2(count_i, count_j, L) ==
    [key_points_i |-> detectAndCompute(count_i),
     key_points_j |-> detectAndCompute(count_j),
     matches |-> knnMatch(count_i, count_j, L),
     findHomography |-> findHomography(L)]

\* numbers of key points SIFT may find in a frame: none, or from just below the
\* least min_features up to MaxKp
KeyPointCounts == {0} \cup (MinFeaturesFloor - 1..MaxKp)

(***************************************************************************)
(* Specification of one _get_image_features call: an extractor with its    *)
(* frame data loaded processes the frame pair (0, 1).                      *)
(***************************************************************************)
InitPair ==
    /\ pc = "get_image_features"
    /\ num_frames = 2
    /\ frame_sampling_mode = None
    /\ frame_pairs = << <<0, 1>> >>
    /\ min_features \in MinFeaturesFloor..MaxKp
    /\ \E D \in UpTo(DepthDefects(0..1), MaxDefects) :
           depth_maps = [f \in 0..1 |-> depth_map(D, f)]
    /\ feature_set = None /\ calls = <<>>
    /\ results = None /\ arrival = <<>>
    /\ index_i = <<>> /\ points_i = <<>> /\ depth_i = <<>>
    /\ index_j = <<>> /\ points_j = <<>> /\ depth_j = <<>>
    /\ num_good_frame_pairs = 0 /\ stats = None
    /\ DefaultConfig /\ NoGeometry

GetImageFeatures ==
    /\ pc = "get_image_features"
    /\ \E count_i, count_j \in KeyPointCounts :
           \E L \in IF too_few(Min(count_i, count_j)) THEN {{}}
                    ELSE UpTo(LibraryDefects,
                              MaxDefects - Cardinality(InvalidPixels(depth_maps))) :
               LET r == get_image_features(frame_pairs[1], cv2(count_i, count_j, L))
               IN  /\ feature_set' = r.ret
                   /\ calls' = r.calls
                   /\ pc' = IF r.ret = Raised THEN "raised" ELSE "returned"
    /\ UNCHANGED <<sampler_vars, extractor_vars, aggregate_vars, config_vars, geometry_vars>>

NextPair == GetImageFeatures

SpecPair == InitPair /\ [][NextPair]_vars

Called(name) == {k \in DOMAIN calls : calls[k][1] = name}

SideLengths(fs) ==
    {Len(fs.frame_i.points), Len(fs.frame_i.depth), Len(fs.frame_j.points), Len(fs.frame_j.depth)}

\* C5: every correspondence the extractor emits has strictly positive depth on both
\* sides, whatever the depth maps hold (negative values included).
C5_EmittedDepthsPositive ==
    IsFeatureSet(feature_set) =>
        /\ \A k \in DOMAIN feature_set.frame_i.depth : feature_set.frame_i.depth[k] > 0
        /\ \A k \in DOMAIN feature_set.frame_j.depth : feature_set.frame_j.depth[k] > 0

\* C6: _get_image_features returns a correspondence set only if at least min_features
\* correspondences remain after the ratio and depth filters (the points handed to
\* findHomography) and at least min_features remain after RANSAC (the points
\* returned); below min_features at either check the pair is rejected with None.
C6_AcceptedHasMinFeatures ==
    /\ IsFeatureSet(feature_set) =>
           /\ \E k \in Called("findHomography") : calls[k][2] >= min_features
           /\ \A n \in SideLengths(feature_set) : n >= min_features
    /\ pc = "returned" /\ (\A k \in Called("findHomography") : calls[k][2] < min_features)
           => feature_set = None

C6_Witness ==
    /\ IsFeatureSet(feature_set)
    /\ SideLengths(feature_set) = {min_features}
    /\ \E k \in Called("findHomography") : calls[k][2] > min_features

\* C7: when frame i or frame j has fewer than min_features key points the pair is
\* rejected and knnMatch is never called; both detections come before the matching,
\* and knnMatch is called only if min(count_i, count_j) >= min_features.
C7_NoMatchingOnSparseFrames ==
    pc # "get_image_features" =>
        /\ Len(calls) >= 2
        /\ calls[1] = <<"detectAndCompute", frame_pairs[1][1], calls[1][3]>>
        /\ calls[2] = <<"detectAndCompute", frame_pairs[1][2], calls[2][3]>>
        /\ \A k \in Called("knnMatch") : k = 3
        /\ Called("knnMatch") # {} <=> Min(calls[1][3], calls[2][3]) >= min_features
        /\ Min(calls[1][3], calls[2][3]) < min_features => feature_set = None /\ pc = "returned"

C7_Witness ==
    /\ pc = "returned" /\ feature_set = None
    /\ Len(calls) = 2 /\ calls[1][3] >= min_features /\ calls[2][3] < min_features

(***************************************************************************)
(* FeatureExtractor.extract_feature_points and _print_results_stats         *)
(***************************************************************************)

NoFeatures ==
    [index_i |-> <<>>, points_i |-> <<>>, depth_i |-> <<>>,
     index_j |-> <<>>, points_j |-> <<>>, depth_j |-> <<>>,
     num_good_frame_pairs |-> 0, raised |-> FALSE]

\* [index] * num_points
repeat(index, num_points) == [k \in 1..num_points |-> index]

\* Mutant of merge: the frame index is appended once per pair, not once per point.
merge_index_once(acc, fs) ==
    IF fs = None THEN acc
    ELSE IF fs = Raised THEN [acc EXCEPT !.raised = TRUE]
    ELSE [index_i |-> acc.index_i \o <<fs.frame_i.index>>,
          points_i |-> acc.points_i \o fs.frame_i.points,
          depth_i |-> acc.depth_i \o fs.frame_i.depth,
          index_j |-> acc.index_j \o <<fs.frame_j.index>>,
          points_j |-> acc.points_j \o fs.frame_j.points,
          depth_j |-> acc.depth_j \o fs.frame_j.depth,
          num_good_frame_pairs |-> acc.num_good_frame_pairs + 1,
          raised |-> FALSE]

\* The body of the loop over the results: a None is skipped, a feature set is
\* appended to the six lists; the exception of a failed call leaves the loop.
merge(acc, fs) ==
    IF fs = None THEN acc
    ELSE IF fs = Raised THEN [acc EXCEPT !.raised = TRUE]
    ELSE LET num_points == Len(fs.frame_i.points)
         IN  [index_i |-> acc.index_i \o repeat(fs.frame_i.index, num_points),
              points_i |-> acc.points_i \o fs.frame_i.points,
              depth_i |-> acc.depth_i \o fs.frame_i.depth,
              index_j |-> acc.index_j \o repeat(fs.frame_j.index, num_points),
              points_j |-> acc.points_j \o fs.frame_j.points,
              depth_j |-> acc.depth_j \o fs.frame_j.depth,
              num_good_frame_pairs |-> acc.num_good_frame_pairs + 1,
              raised |-> FALSE]

\* for feature_set in tqdm_imap(self._get_image_features, self.frame_pairs): ...
\* order is the order in which the results reach the loop, res the result of each pair.
RECURSIVE extract_loop(_, _, _, _)
extract_loop(acc, order, res, k) ==
    IF k > Len(order) \/ acc.raised THEN acc
    ELSE extract_loop(merge(acc, res[order[k]]), order, res, k + 1)

\* set(index_i + index_j)
frames_with_matched_features(idx_i, idx_j) ==
    {(idx_i \o idx_j)[k] : k \in DOMAIN (idx_i \o idx_j)}

\* Mutant of chunks_from: the chunk still open after the last frame is dropped.
RECURSIVE chunks_from_no_tail(_, _, _, _, _)
chunks_from_no_tail(frame_index, n, frames, chunk, chunks) ==
    IF frame_index >= n THEN chunks
    ELSE IF frame_index \in frames
    THEN chunks_from_no_tail(frame_index + 1, n, frames, Append(chunk, frame_index), chunks)
    ELSE IF chunk # <<>>
    THEN chunks_from_no_tail(frame_index + 1, n, frames, <<>>, Append(chunks, chunk))
    ELSE chunks_from_no_tail(frame_index + 1, n, frames, chunk, chunks)

\* for frame_index in range(n): ...; if chunk: chunks.append(chunk)
RECURSIVE chunks_from(_, _, _, _, _)
chunks_from(frame_index, n, frames, chunk, chunks) ==
    IF frame_index >= n THEN (IF chunk # <<>> THEN Append(chunks, chunk) ELSE chunks)
    ELSE IF frame_index \in frames
    THEN chunks_from(frame_index + 1, n, frames, Append(chunk, frame_index), chunks)
    ELSE IF chunk # <<>>
    THEN chunks_from(frame_index + 1, n, frames, <<>>, Append(chunks, chunk))
    ELSE chunks_from(frame_index + 1, n, frames, chunk, chunks)

\* Mutant of print_results_stats: the frames are grouped in the order in which they
\* were appended to index_i instead of in the order of range(num_frames).
print_results_stats_in_list_order(idx_i, idx_j, num_good, n, num_pairs) ==
    LET frames == frames_with_matched_features(idx_i, idx_j)
        breaks == {k \in 2..Len(idx_i) : idx_i[k] # idx_i[k - 1] /\ idx_i[k] # idx_i[k - 1] + 1}
    IN  [num_good_frame_pairs |-> num_good,
         num_frame_pairs |-> num_pairs,
         coverage |-> <<Cardinality(frames), n>>,
         num_chunks |-> IF idx_i = <<>> THEN 0 ELSE 1 + Cardinality(breaks)]

\* _print_results_stats: the numbers it logs.  coverage is the quotient
\* len(frames_with_matched_features) / num_frames, kept as <<numerator, denominator>>.
print_results_stats(idx_i, idx_j, num_good, n, num_pairs) ==
    LET frames == frames_with_matched_features(idx_i, idx_j)
        chunks == chunks_from(0, n, frames, <<>>, <<>>)
    IN  [num_good_frame_pairs |-> num_good,
         num_frame_pairs |-> num_pairs,
         coverage |-> <<Cardinality(frames), n>>,
         num_chunks |-> Len(chunks)]

\* The orders in which the results of the mapped calls can reach the loop.  A call
\* that raised hands its exception to the loop in place of a result: errors of a
\* mapped call propagate as the failure of the whole map.
tqdm_imap(pairs) ==
    {[k \in DOMAIN pairs |-> pairs[perm[k]]] : perm \in Permutations(DOMAIN pairs)}

(***************************************************************************)
(* Specification of one extract_feature_points run over a list of frame    *)
(* pairs.  Every frame has MaxKp key points and valid depth; per pair the   *)
(* matcher gives no, one or two ambiguous matches, or no homography is      *)
(* found.                                                                   *)
(***************************************************************************)
AllPairs(n) == {p \in (0..n - 1) \X (0..n - 1) : p[1] < p[2]}

PairBefore(p, q) == p[1] < q[1] \/ (p[1] = q[1] /\ p[2] <= q[2])

RECURSIVE SortedPairs(_)
SortedPairs(S) ==
    IF S = {} THEN <<>>
    ELSE LET first == CHOOSE p \in S : \A q \in S : PairBefore(p, q)
         IN  <<first>> \o SortedPairs(S \ {first})

AggLibraryDefects ==
    {{}, {<<"ambiguous", 1, 0, 0>>}, {<<"ambiguous", 1, 0, 0>>, <<"ambiguous", 2, 0, 0>>},
     {<<"nohomography", 0, 0, 0>>}}

InitAgg ==
    /\ pc = "extract_feature_points"
    /\ num_frames \in 1..MaxAggFrames
    /\ frame_sampling_mode = None
    /\ \E S \in UpTo(AllPairs(num_frames), MaxPairs) : frame_pairs = SortedPairs(S)
    /\ min_features = MaxKp - 1     \* two ambiguous matches make a pair fall short
    /\ depth_maps = [f \in 0..num_frames - 1 |-> depth_map({}, f)]
    /\ feature_set = None /\ calls = <<>>
    /\ results = None /\ arrival = <<>>
    /\ index_i = <<>> /\ points_i = <<>> /\ depth_i = <<>>
    /\ index_j = <<>> /\ points_j = <<>> /\ depth_j = <<>>
    /\ num_good_frame_pairs = 0 /\ stats = None
    /\ DefaultConfig /\ NoGeometry

ExtractFeaturePoints ==
    /\ pc = "extract_feature_points"
    /\ \E L \in [Elements(frame_pairs) -> AggLibraryDefects] :
           results' = [p \in Elements(frame_pairs) |->
                          get_image_features(p, cv2(MaxKp, MaxKp, L[p])).ret]
    /\ arrival' \in tqdm_imap(frame_pairs)
    /\ \E out \in {extract_loop(NoFeatures, arrival', results', 1)} :
           IF out.raised
           THEN /\ pc' = "raised"
                /\ UNCHANGED <<index_i, points_i, depth_i, index_j, points_j, depth_j,
                               num_good_frame_pairs, stats>>
           ELSE /\ pc' = "done"
                /\ index_i' = out.index_i
                /\ points_i' = out.points_i
                /\ depth_i' = out.depth_i
                /\ index_j' = out.index_j
                /\ points_j' = out.points_j
                /\ depth_j' = out.depth_j
                /\ num_good_frame_pairs' = out.num_good_frame_pairs
                /\ stats' = print_results_stats(index_i', index_j', num_good_frame_pairs',
                                                num_frames, Len(frame_pairs))
    /\ UNCHANGED <<sampler_vars, extractor_vars, pair_vars, config_vars, geometry_vars>>

NextAgg == ExtractFeaturePoints

SpecAgg == InitAgg /\ [][NextAgg]_vars

AcceptedPairs == {p \in Elements(frame_pairs) : IsFeatureSet(results[p])}

RECURSIVE NumCorrespondences(_)
NumCorrespondences(P) ==
    IF P = {} THEN 0
    ELSE LET p == CHOOSE q \in P : TRUE
         IN  Len(results[p].frame_i.points) + NumCorrespondences(P \ {p})

\* C8: after extract_feature_points the six flat lists have the same length, entry k
\* of the i-side and of the j-side come from the same correspondence of the same
\* accepted pair (index_i[k], index_j[k]), and rejected pairs contribute nothing.
C8_ListsAligned ==
    pc = "done" =>
        /\ {Len(index_i), Len(points_i), Len(depth_i), Len(index_j), Len(points_j), Len(depth_j)}
               = {NumCorrespondences(AcceptedPairs)}
        /\ \A k \in DOMAIN index_i :
               /\ <<index_i[k], index_j[k]>> \in AcceptedPairs
               /\ LET fs == results[<<index_i[k], index_j[k]>>]
                  IN  \E q \in DOMAIN fs.frame_i.points :
                          /\ points_i[k] = fs.frame_i.points[q]
                          /\ depth_i[k] = fs.frame_i.depth[q]
                          /\ points_j[k] = fs.frame_j.points[q]
                          /\ depth_j[k] = fs.frame_j.depth[q]

C8_Witness ==
    /\ pc = "done"
    /\ AcceptedPairs # {} /\ AcceptedPairs # Elements(frame_pairs)
    /\ Len(index_i) >= MaxKp - 1

CoveredFrames == {p[1] : p \in AcceptedPairs} \cup {p[2] : p \in AcceptedPairs}

\* The last frame of every maximal run of consecutive covered frames.
RunEnds(S, n) == {k \in S \cap (0..n - 1) : k + 1 \notin S \/ k = n - 1}

\* C9: with S the frames appearing in accepted correspondences, coverage = |S|/N and
\* the group count is the number of maximal runs of consecutive indices of 0..N-1
\* in S, a run ending at N-1 included; S = {0,1,2,5,6}, N = 8: coverage 5/8, 2 groups.
C9_CoverageAndGroups ==
    /\ pc = "done" =>
           /\ stats.coverage[2] # 0
           /\ stats.coverage[1] * num_frames = Cardinality(CoveredFrames) * stats.coverage[2]
           /\ stats.num_chunks = Cardinality(RunEnds(CoveredFrames, num_frames))
    /\ LET example == print_results_stats(<<0, 1, 5>>, <<1, 2, 6>>, 3, 8, 3)
       IN  example.coverage[1] * 8 = 5 * example.coverage[2] /\ example.num_chunks = 2

C9_Witness ==
    /\ pc = "done" /\ num_frames = 5
    /\ CoveredFrames = {0, 1, 3, 4}
    /\ stats.coverage = <<4, 5>> /\ stats.num_chunks = 2

\* C10: the aggregate statistics (accepted pairs, coverage, contiguous groups) are the
\* same for every order in which the per-pair results of one run are merged.
C10_StatsOrderIndependent ==
    pc = "done" =>
        \A order \in tqdm_imap(frame_pairs) :
            \A out \in {extract_loop(NoFeatures, order, results, 1)} :
                print_results_stats(out.index_i, out.index_j, out.num_good_frame_pairs,
                                    num_frames, Len(frame_pairs)) = stats

C10_Witness ==
    /\ pc = "done"
    /\ arrival # frame_pairs
    /\ Cardinality(AcceptedPairs) >= 2
    /\ stats.num_good_frame_pairs = Cardinality(AcceptedPairs)

FailedPairs == {p \in Elements(frame_pairs) : results[p] = Raised}

\* Number of entries of the flat lists that carry the frame indices of pair p.
EntriesOf(p) == Cardinality({k \in DOMAIN index_i : <<index_i[k], index_j[k]>> = p})

\* C11: a frame pair whose processing raises does not abort the sweep: when one pair
\* failed and another was accepted, the run still completes and every correspondence
\* of every accepted pair is in the aggregated output.
C11_PairFailureIsolated ==
    (pc # "extract_feature_points" /\ FailedPairs # {} /\ AcceptedPairs # {}) =>
        /\ pc = "done"
        /\ \A p \in AcceptedPairs : EntriesOf(p) = Len(results[p].frame_i.points)

(***************************************************************************)
(* FeatureExtractor.__init__: validation of min_features and max_features  *)
(***************************************************************************)

\* Largest integer given as min_features; max_features goes up to 2 * MaxConfig + 1.
MaxConfig == 21

\* Python values given as arguments: int, bool (a subclass of int), float, None.
PyInt(n) == [type |-> "int", value |-> n]
PyBool(b) == [type |-> "bool", value |-> IF b THEN 1 ELSE 0]
PyFloat(n) == [type |-> "float", value |-> n]

\* isinstance(x, int)
isinstance_int(x) == x.type \in {"int", "bool"}

RecommendedMinFeatures == 20

ValueError == [type |-> "ValueError"]

\* warnings.warn(...) of the two advisory checks
advisories(min_f, max_f) ==
    {w \in {"min_features"} : min_f.value < RecommendedMinFeatures}
        \cup {w \in {"max_features"} : max_f # None /\ max_f.value < 2 * min_f.value}

\* Mutant of FeatureExtractor_init: a max_features below 2 * min_features is raised
\* to 2 * min_features instead of being warned about.
FeatureExtractor_init_clamping(min_f, max_f) ==
    IF ~isinstance_int(min_f) \/ min_f.value < MinFeaturesFloor THEN ValueError
    ELSE IF max_f # None /\ (~isinstance_int(max_f) \/ max_f.value <= min_f.value) THEN ValueError
    ELSE [type |-> "FeatureExtractor",
          min_features |-> min_f,
          max_features |-> IF max_f # None /\ max_f.value < 2 * min_f.value
                           THEN PyInt(2 * min_f.value) ELSE max_f,
          warnings |-> advisories(min_f, max_f)]

\* FeatureExtractor.__init__(..., min_features, max_features, ...): the ValueError it
\* raises, or the attributes it stores and the warnings it issues.
FeatureExtractor_init(min_f, max_f) ==
    IF ~isinstance_int(min_f) \/ min_f.value < MinFeaturesFloor THEN ValueError
    ELSE IF max_f # None /\ (~isinstance_int(max_f) \/ max_f.value <= min_f.value) THEN ValueError
    ELSE [type |-> "FeatureExtractor",
          min_features |-> min_f,
          max_features |-> max_f,
          warnings |-> advisories(min_f, max_f)]

(***************************************************************************)
(* Specification of one construction of a FeatureExtractor.                *)
(***************************************************************************)
MinFeaturesArgs ==
    {PyInt(n) : n \in -1..MaxConfig} \cup {PyFloat(n) : n \in {MinFeaturesFloor, RecommendedMinFeatures}}
        \cup {PyBool(TRUE), PyBool(FALSE), None}

MaxFeaturesArgs ==
    {PyInt(n) : n \in -1..2 * MaxConfig + 1} \cup {PyFloat(2 * MaxConfig), PyBool(TRUE), None}

InitConstruct ==
    /\ pc = "__init__"
    /\ args \in [min_features : MinFeaturesArgs, max_features : MaxFeaturesArgs]
    /\ min_features = None /\ max_features = None /\ warnings = {}
    /\ num_frames = 1 /\ frame_sampling_mode = None /\ frame_pairs = <<>>
    /\ depth_maps = <<>>
    /\ feature_set = None /\ calls = <<>>
    /\ results = None /\ arrival = <<>>
    /\ index_i = <<>> /\ points_i = <<>> /\ depth_i = <<>>
    /\ index_j = <<>> /\ points_j = <<>> /\ depth_j = <<>>
    /\ num_good_frame_pairs = 0 /\ stats = None
    /\ NoGeometry

Construct ==
    /\ pc = "__init__"
    /\ \E self \in {FeatureExtractor_init(args.min_features, args.max_features)} :
           IF self = ValueError
           THEN /\ pc' = "ValueError"
                /\ UNCHANGED <<min_features, max_features, warnings>>
           ELSE /\ pc' = "constructed"
                /\ min_features' = self.min_features
                /\ max_features' = self.max_features
                /\ warnings' = self.warnings
    /\ UNCHANGED <<args, sampler_vars, depth_maps, pair_vars, aggregate_vars, geometry_vars>>

NextConstruct == Construct

SpecConstruct == InitConstruct /\ [][NextConstruct]_vars

IntegerAbove(x, low) == x # None /\ x.type = "int" /\ x.value > low

\* C12: construction fails with a configuration error exactly when min_features is not
\* an integer >= 5 or max_features is set and is not an integer > min_features; in
\* every other case, the advisory-warning cases included, it succeeds and stores the
\* given min_features and max_features unchanged.
C12_ConfigurationErrorExactly ==
    pc # "__init__" =>
        LET min_ok == IntegerAbove(args.min_features, MinFeaturesFloor - 1)
            max_ok == args.max_features = None
                          \/ IntegerAbove(args.max_features, args.min_features.value)
        IN  /\ pc = "ValueError" <=> ~(min_ok /\ max_ok)
            /\ pc = "constructed" <=> min_ok /\ max_ok
            /\ pc = "constructed" =>
                   /\ min_features = args.min_features
                   /\ max_features = args.max_features

C12_Witness ==
    /\ pc = "constructed"
    /\ warnings = {"min_features", "max_features"}
    /\ min_features = PyInt(MinFeaturesFloor) /\ max_features = PyInt(MinFeaturesFloor + 1)

(***************************************************************************)
(* Video2mesh/geometry.py: world2image, image2world, point_cloud_from_depth *)
(* Real numbers are exact rationals <<numerator, denominator>> in lowest    *)
(* terms with a positive denominator; vectors and matrices are tuples.      *)
(***************************************************************************)
Abs(x) == IF x < 0 THEN -x ELSE x

RECURSIVE GCD(_, _)
GCD(a, b) == IF b = 0 THEN a ELSE GCD(b, a % b)

\* n / d, d # 0
Frac(n, d) ==
    LET g == GCD(Abs(n), Abs(d))
        sign == IF d < 0 THEN -1 ELSE 1
    IN  <<(sign * n) \div g, (sign * d) \div g>>

Num(n) == <<n, 1>>
QAdd(a, b) == Frac(a[1] * b[2] + b[1] * a[2], a[2] * b[2])
QSub(a, b) == Frac(a[1] * b[2] - b[1] * a[2], a[2] * b[2])
QMul(a, b) == Frac(a[1] * b[1], a[2] * b[2])
QDiv(a, b) == Frac(a[1] * b[2], a[2] * b[1])
QPositive(a) == a[1] > 0

\* np.round: to the nearest integer, a half to the even neighbour
np_round(a) ==
    LET floor == a[1] \div a[2]
        twice_rest == 2 * (a[1] - floor * a[2])
    IN  Num(IF twice_rest < a[2] THEN floor
            ELSE IF twice_rest > a[2] THEN floor + 1
            ELSE IF floor % 2 = 0 THEN floor ELSE floor + 1)

\* u @ v for two vectors of length 3
Dot(u, v) == QAdd(QAdd(QMul(u[1], v[1]), QMul(u[2], v[2])), QMul(u[3], v[3]))

\* M @ v
MatVec(M, v) == [r \in 1..3 |-> Dot(M[r], v)]

\* M.T
Transpose(M) == [r \in 1..3 |-> [c \in 1..3 |-> M[c][r]]]

VecAdd(u, v) == [r \in 1..3 |-> QAdd(u[r], v[r])]
VecSub(u, v) == [r \in 1..3 |-> QSub(u[r], v[r])]
Scale(a, v) == [r \in 1..3 |-> QMul(a, v[r])]

Cyc(k) == IF k > 3 THEN k - 3 ELSE k

Minor(M, r, c) ==
    QSub(QMul(M[Cyc(r + 1)][Cyc(c + 1)], M[Cyc(r + 2)][Cyc(c + 2)]),
         QMul(M[Cyc(r + 1)][Cyc(c + 2)], M[Cyc(r + 2)][Cyc(c + 1)]))

Det(M) == Dot(M[1], [c \in 1..3 |-> Minor(M, 1, c)])

\* np.linalg.inv(M), M invertible
inv(M) == [r \in 1..3 |-> [c \in 1..3 |-> QDiv(Minor(M, c, r), Det(M))]]

is_integer_dtype(dtype) == dtype \in {"int32", "int64"}

\* world2image for one row of points: <<pixel coordinates, depth>>
project(point, K, R, t, scale_factor, dtype) ==
    LET camera_space_coords == MatVec(K, VecAdd(MatVec(R, point), t))
        depth == camera_space_coords[3]
        pixel_coords == [k \in 1..2 |-> QDiv(QDiv(camera_space_coords[k], depth), scale_factor)]
    IN  <<IF is_integer_dtype(dtype) THEN [k \in 1..2 |-> np_round(pixel_coords[k])]
          ELSE pixel_coords,
          depth>>

\* world2image(points, K, R, t, scale_factor, dtype) -> pixel_coords, depth
world2image(points, K, R, t, scale_factor, dtype) ==
    [pixel_coords |-> [k \in DOMAIN points |-> project(points[k], K, R, t, scale_factor, dtype)[1]],
     depth |-> [k \in DOMAIN points |-> project(points[k], K, R, t, scale_factor, dtype)[2]]]

\* Mutant of back_project: the pixel coordinates are not multiplied by scale_factor.
back_project_unscaled(point, depth, K, R, t, scale_factor) ==
    LET points2d == <<point[1], point[2], Num(1)>>
        pixel_i == MatVec(inv(K), points2d)
    IN  MatVec(Transpose(R), VecSub(Scale(depth, pixel_i), t))

\* image2world for one row of points and its depth
back_project(point, depth, K, R, t, scale_factor) ==
    LET points2d == <<QMul(point[1], scale_factor), QMul(point[2], scale_factor), Num(1)>>
        pixel_i == MatVec(inv(K), points2d)
    IN  MatVec(Transpose(R), VecSub(Scale(depth, pixel_i), t))

\* image2world(points, depth, K, R, t, scale_factor)
image2world(points, depth, K, R, t, scale_factor) ==
    [k \in DOMAIN points |-> back_project(points[k], depth[k], K, R, t, scale_factor)]

\* The pixels <<row, col>> of a height x width boolean array that are True, in
\* row-major order (the order of ndarray.nonzero() and of boolean-mask indexing).
RECURSIVE true_pixels_from(_, _, _, _)
true_pixels_from(array, height, width, k) ==
    IF k >= height * width THEN <<>>
    ELSE LET pixel == <<k \div width, k % width>>
         IN  (IF array[pixel] THEN <<pixel>> ELSE <<>>)
                 \o true_pixels_from(array, height, width, k + 1)

\* V, U = valid_pixels.nonzero()
nonzero(array, height, width) ==
    LET pixels == true_pixels_from(array, height, width, 0)
    IN  [V |-> [k \in DOMAIN pixels |-> pixels[k][1]],
         U |-> [k \in DOMAIN pixels |-> pixels[k][2]]]

\* depth[valid_pixels]
boolean_index(depth, array, height, width) ==
    LET pixels == true_pixels_from(array, height, width, 0)
    IN  [k \in DOMAIN pixels |-> Num(depth[pixels[k]])]

\* Mutant of point_cloud_from_depth: the pixels are passed as (row, column).
point_cloud_from_depth_row_col(depth, mask, shape, K, R, t, scale_factor) ==
    LET valid_pixels == [q \in DOMAIN depth |-> mask[q] /\ depth[q] > 0]
        VU == nonzero(valid_pixels, shape[1], shape[2])
        points2d == [k \in DOMAIN VU.U |-> <<Num(VU.V[k]), Num(VU.U[k])>>]
        depths == boolean_index(depth, valid_pixels, shape[1], shape[2])
    IN  [points2d |-> points2d, depth |-> depths,
         points |-> image2world(points2d, depths, K, R, t, scale_factor)]

\* point_cloud_from_depth(depth, mask, K, R, t, scale_factor), shape = depth.shape:
\* the points it returns and the arguments it gives to image2world.
point_cloud_from_depth(depth, mask, shape, K, R, t, scale_factor) ==
    LET valid_pixels == [q \in DOMAIN depth |-> mask[q] /\ depth[q] > 0]
        VU == nonzero(valid_pixels, shape[1], shape[2])
        points2d == [k \in DOMAIN VU.U |-> <<Num(VU.U[k]), Num(VU.V[k])>>]
        depths == boolean_index(depth, valid_pixels, shape[1], shape[2])
    IN  [points2d |-> points2d, depth |-> depths,
         points |-> image2world(points2d, depths, K, R, t, scale_factor)]

(***************************************************************************)
(* Specification of a round trip: world2image, then image2world with the   *)
(* same camera.  No point of the input has depth zero under the pose        *)
(* (the division by a zero depth gives inf or nan).                         *)
(***************************************************************************)

\* Largest absolute value of a coordinate of an input point.
MaxCoord == 1

Matrix(rows) == [r \in 1..3 |-> [c \in 1..3 |-> Num(rows[r][c])]]
Vector(v) == [r \in 1..3 |-> Num(v[r])]

\* Camera matrices [[fx, 0, cx], [0, fy, cy], [0, 0, 1]]
Intrinsics ==
    {Matrix(<<<<f[1], 0, f[3]>>, <<0, f[2], f[4]>>, <<0, 0, 1>>>>) :
         f \in {<<1, 1, 0, 0>>, <<2, 3, 1, 2>>, <<3, 2, 2, 1>>}}

\* The identity (the default R) and quarter turns about the z, x and y axis
Rotations ==
    {Matrix(<<<<1, 0, 0>>, <<0, 1, 0>>, <<0, 0, 1>>>>),
     Matrix(<<<<0, -1, 0>>, <<1, 0, 0>>, <<0, 0, 1>>>>),
     Matrix(<<<<1, 0, 0>>, <<0, 0, -1>>, <<0, 1, 0>>>>),
     Matrix(<<<<0, 0, 1>>, <<0, 1, 0>>, <<-1, 0, 0>>>>)}

Translations == {Vector(<<0, 0, 0>>), Vector(<<1, 0, 2>>), Vector(<<0, -1, 3>>)}

ScaleFactors == {Num(1), Num(2), Frac(1, 2)}

Coords == -MaxCoord..MaxCoord

PointLists ==
    {<<Vector(p)>> : p \in Coords \X Coords \X Coords}
        \cup {<<Vector(p), Vector(<<1, 1, 1>>)>> : p \in Coords \X Coords \X Coords}

NoSamplerOrExtractorRun ==
    /\ num_frames = 1 /\ frame_sampling_mode = None /\ frame_pairs = <<>>
    /\ min_features = None /\ depth_maps = <<>>
    /\ feature_set = None /\ calls = <<>>
    /\ results = None /\ arrival = <<>>
    /\ index_i = <<>> /\ points_i = <<>> /\ depth_i = <<>>
    /\ index_j = <<>> /\ points_j = <<>> /\ depth_j = <<>>
    /\ num_good_frame_pairs = 0 /\ stats = None
    /\ max_features = None /\ warnings = {}

InitRoundTrip ==
    /\ pc = "world2image"
    /\ args \in [points : PointLists, K : Intrinsics, R : Rotations, t : Translations,
                 scale_factor : ScaleFactors, dtype : {"int32", "float32"}]
    /\ \A k \in DOMAIN args.points :
           VecAdd(MatVec(args.R, args.points[k]), args.t)[3] # Num(0)
    /\ NoGeometry
    /\ NoSamplerOrExtractorRun

World2Image ==
    /\ pc = "world2image"
    /\ image' = world2image(args.points, args.K, args.R, args.t, args.scale_factor, args.dtype)
    /\ pc' = "image2world"
    /\ UNCHANGED <<sampler_vars, extractor_vars, pair_vars, aggregate_vars, config_vars,
                   back_projected, world>>

Image2World ==
    /\ pc = "image2world"
    /\ world' = image2world(image.pixel_coords, image.depth, args.K, args.R, args.t,
                            args.scale_factor)
    /\ pc' = "done"
    /\ UNCHANGED <<sampler_vars, extractor_vars, pair_vars, aggregate_vars, config_vars,
                   image, back_projected>>

NextRoundTrip == World2Image \/ Image2World

SpecRoundTrip == InitRoundTrip /\ [][NextRoundTrip]_vars

AllDepthsPositive == \A k \in DOMAIN image.depth : QPositive(image.depth[k])

\* C13 as stated: world2image followed by image2world with the same K, R, t and
\* scale_factor recovers the original points whenever every depth is strictly positive.
C13_RoundTrip ==
    (pc = "done" /\ AllDepthsPositive) => world = args.points

\* C13 amended: the round trip recovers the original points whenever every depth is
\* strictly positive and world2image was asked for floating-point pixel coordinates;
\* with an integer dtype (the default) the pixel coordinates are rounded first.
C13_RoundTripFloat ==
    (pc = "done" /\ AllDepthsPositive /\ ~is_integer_dtype(args.dtype)) => world = args.points

C13_Witness ==
    /\ pc = "done" /\ AllDepthsPositive /\ ~is_integer_dtype(args.dtype)
    /\ Len(args.points) = 2
    /\ args.scale_factor = Num(2) /\ args.t = Vector(<<1, 0, 2>>)
    /\ args.R = Matrix(<<<<0, 0, 1>>, <<0, 1, 0>>, <<-1, 0, 0>>>>)
    /\ \E k \in DOMAIN args.points : image.pixel_coords[k][1][2] # 1
    /\ world = args.points

(***************************************************************************)
(* Specification of one point_cloud_from_depth call on a depth map and a   *)
(* mask of the same shape, with the default R, t and scale_factor.          *)
(***************************************************************************)

\* Largest width of a depth map; its height is 1 or 2.
MaxCloudWidth == 2

CloudShapes == (1..2) \X (1..MaxCloudWidth)

PixelsOf(shape) == (0..shape[1] - 1) \X (0..shape[2] - 1)

\* A depth below zero, a depth of zero, or a positive depth that differs per pixel.
DepthValues(shape, pixel) == {-1, 0, 1 + pixel[1] * shape[2] + pixel[2]}

DepthMaps(shape) ==
    {d \in [PixelsOf(shape) -> -1..shape[1] * shape[2]] :
         \A q \in PixelsOf(shape) : d[q] \in DepthValues(shape, q)}

CloudIntrinsics == Matrix(<<<<2, 0, 1>>, <<0, 3, 2>>, <<0, 0, 1>>>>)
np_eye == Matrix(<<<<1, 0, 0>>, <<0, 1, 0>>, <<0, 0, 1>>>>)
np_zeros == Vector(<<0, 0, 0>>)

InitCloud ==
    /\ pc = "point_cloud_from_depth"
    /\ \E shape \in CloudShapes :
           args \in [shape : {shape}, depth : DepthMaps(shape),
                     mask : [PixelsOf(shape) -> BOOLEAN], K : {CloudIntrinsics}]
    /\ NoGeometry
    /\ NoSamplerOrExtractorRun

PointCloudFromDepth ==
    /\ pc = "point_cloud_from_depth"
    /\ \E out \in {point_cloud_from_depth(args.depth, args.mask, args.shape, args.K,
                                          np_eye, np_zeros, Num(1))} :
           /\ back_projected' = [points |-> out.points2d, depth |-> out.depth]
           /\ world' = out.points
    /\ pc' = "done"
    /\ UNCHANGED <<sampler_vars, extractor_vars, pair_vars, aggregate_vars, config_vars, image>>

NextCloud == PointCloudFromDepth

SpecCloud == InitCloud /\ [][NextCloud]_vars

ValidPixels == {q \in DOMAIN args.depth : args.mask[q] /\ args.depth[q] > 0}

\* Position of a valid pixel in the row-major order of the valid pixels.
RowMajorRank(q) ==
    Cardinality({v \in ValidPixels : v[1] < q[1] \/ (v[1] = q[1] /\ v[2] <= q[2])})

\* C14: point_cloud_from_depth back-projects exactly the pixels with mask true and
\* depth > 0: one point per such pixel and none for any other, each pixel passed as
\* (x, y) = (column, row) with its own depth, in row-major order of the valid pixels.
C14_CloudFromValidPixels ==
    pc = "done" =>
        /\ {Len(world), Len(back_projected.points), Len(back_projected.depth)}
               = {Cardinality(ValidPixels)}
        /\ \A q \in ValidPixels :
               /\ back_projected.points[RowMajorRank(q)] = <<Num(q[2]), Num(q[1])>>
               /\ back_projected.depth[RowMajorRank(q)] = Num(args.depth[q])
               \* K = [[2, 0, 1], [0, 3, 2], [0, 0, 1]]: X = d (x - 1) / 2, Y = d (y - 2) / 3, Z = d
               /\ world[RowMajorRank(q)] = <<Frac(args.depth[q] * (q[2] - 1), 2),
                                             Frac(args.depth[q] * (q[1] - 2), 3),
                                             Num(args.depth[q])>>

C14_Witness ==
    /\ pc = "done" /\ args.shape = <<2, 2>>
    /\ ValidPixels = {<<0, 1>>, <<1, 0>>}
    /\ ~args.mask[<<0, 0>>] /\ args.depth[<<0, 0>>] > 0
    /\ args.mask[<<1, 1>>] /\ args.depth[<<1, 1>>] < 0
    /\ back_projected.points = <<<<Num(1), Num(0)>>, <<Num(0), Num(1)>>>>
    /\ back_projected.depth = <<Num(2), Num(3)>>

(***************************************************************************)
(* Specification of one _get_image_features call in which the matcher      *)
(* reports freely chosen distances for one candidate.  Both frames have     *)
(* MaxKp key points with valid depth, the other candidates are unambiguous  *)
(* and every match is a RANSAC inlier.                                      *)
(***************************************************************************)

\* knnMatch output whose candidate k has best distance d1 and second-best distance d2
knnMatch_with(k, d1, d2) ==
    [c \in 1..MaxKp |->
        IF c = k
        THEN [m |-> [knnMatch(MaxKp, MaxKp, {})[c].m EXCEPT !.distance = d1],
              n |-> [knnMatch(MaxKp, MaxKp, {})[c].n EXCEPT !.distance = d2]]
        ELSE knnMatch(MaxKp, MaxKp, {})[c]]

InitRatio ==
    /\ pc = "get_image_features"
    /\ \E k \in {1, MaxKp} : \E d2 \in 0..MaxDistance : \E d1 \in 0..d2 :
           args = [cv2(MaxKp, MaxKp, {}) EXCEPT !.matches = knnMatch_with(k, d1, d2)]
    /\ num_frames = 2
    /\ frame_sampling_mode = None
    /\ frame_pairs = << <<0, 1>> >>
    /\ min_features = MinFeaturesFloor
    /\ depth_maps = [f \in 0..1 |-> depth_map({}, f)]
    /\ feature_set = None /\ calls = <<>>
    /\ results = None /\ arrival = <<>>
    /\ index_i = <<>> /\ points_i = <<>> /\ depth_i = <<>>
    /\ index_j = <<>> /\ points_j = <<>> /\ depth_j = <<>>
    /\ num_good_frame_pairs = 0 /\ stats = None
    /\ max_features = None /\ warnings = {}
    /\ NoGeometry

GetImageFeaturesOfMatches ==
    /\ pc = "get_image_features"
    /\ \E r \in {get_image_features(frame_pairs[1], args)} :
           /\ feature_set' = r.ret
           /\ calls' = r.calls
           /\ pc' = IF r.ret = Raised THEN "raised" ELSE "returned"
    /\ UNCHANGED <<sampler_vars, extractor_vars, aggregate_vars, config_vars, geometry_vars>>

NextRatio == GetImageFeaturesOfMatches

SpecRatio == InitRatio /\ [][NextRatio]_vars

\* The query key point of candidate c is among the points of the returned set.
InOutput(c) ==
    /\ IsFeatureSet(feature_set)
    /\ args.key_points_i[args.matches[c].m.queryIdx + 1].pt \in Elements(feature_set.frame_i.points)

\* C15: a candidate with best distance d1 and second-best distance d2 is in the pair's
\* output if and only if d1 <= 0.7 * d2, the boundary d1 = 0.7 * d2 included, whatever
\* min_features is; a candidate that fails the test is never in the output.
C15_RatioTestExact ==
    pc = "returned" =>
        \A c \in DOMAIN args.matches :
            InOutput(c) <=> 10 * args.matches[c].m.distance <= 7 * args.matches[c].n.distance

(***************************************************************************)
(* Specification of the sampler: a dataset of num_frames frames and a      *)
(* sampling mode are given, sample_frame_pairs is called once.             *)
(***************************************************************************)
InitSample ==
    /\ pc = "sample_frame_pairs"
    /\ num_frames \in 2..MaxFrames
    /\ frame_sampling_mode \in FrameSamplingMode \cup {"UNSUPPORTED"}
    /\ frame_pairs = <<>>
    /\ min_features = None /\ depth_maps = None
    /\ feature_set = None /\ calls = <<>>
    /\ results = None /\ arrival = <<>>
    /\ index_i = <<>> /\ points_i = <<>> /\ depth_i = <<>>
    /\ index_j = <<>> /\ points_j = <<>> /\ depth_j = <<>>
    /\ num_good_frame_pairs = 0 /\ stats = None
    /\ DefaultConfig /\ NoGeometry

SampleFramePairs ==
    /\ pc = "sample_frame_pairs"
    /\ IF frame_sampling_mode \in FrameSamplingMode
       THEN /\ frame_pairs' = sample_frame_pairs(num_frames, frame_sampling_mode)
            /\ pc' = "sampled"
       ELSE /\ frame_pairs' = frame_pairs
            /\ pc' = "RuntimeError"
    /\ UNCHANGED <<num_frames, frame_sampling_mode, extractor_vars, pair_vars, aggregate_vars,
                   config_vars, geometry_vars>>

NextSample == SampleFramePairs

SpecSample == InitSample /\ [][NextSample]_vars

Returned(mode) == pc = "sampled" /\ frame_sampling_mode = mode

NoDuplicates(seq) == \A k, l \in DOMAIN seq : seq[k] = seq[l] => k = l

\* C1: for every N >= 2 and every sampling mode, every pair (i, j) returned by
\* sample_frame_pairs satisfies 0 <= i < j < N.
C1_PairsOrderedInRange ==
    pc = "sampled" =>
        \A k \in DOMAIN frame_pairs :
            /\ 0 <= frame_pairs[k][1]
            /\ frame_pairs[k][1] < frame_pairs[k][2]
            /\ frame_pairs[k][2] < num_frames

C1_Witness ==
    /\ Returned(HIERARCHICAL) /\ num_frames = 9
    /\ <<0, 8>> \in Elements(frame_pairs)

\* C2: for every N >= 2, EXHAUSTIVE sampling returns every unordered pair {i, j} of
\* distinct frame indices in [0, N) exactly once: N(N-1)/2 pairs, no duplicates.
C2_ExhaustiveAllPairsOnce ==
    Returned(EXHAUSTIVE) =>
        /\ Elements(frame_pairs) =
               {p \in (0..num_frames - 1) \X (0..num_frames - 1) : p[1] < p[2]}
        /\ 2 * Len(frame_pairs) = num_frames * (num_frames - 1)
        /\ NoDuplicates(frame_pairs)

C2_Witness == Returned(EXHAUSTIVE) /\ num_frames = 6 /\ Len(frame_pairs) = 15

\* The largest level with 2^level <= n - 1, i.e. floor(log2(n - 1)).
TopLevel(n) == CHOOSE l \in 0..n : 2^l <= n - 1 /\ 2^(l + 1) > n - 1

\* C3: for every N >= 2, HIERARCHICAL sampling returns exactly the pairs
\* (start, start + s) with s = 2^level, level in 0..floor(log2(N-1)), start a multiple
\* of s and start + s < N, each exactly once; it contains every consecutive pair
\* (k, k+1), including (0, 1), and no pair whose second index is >= N.
C3_HierarchicalExactPairs ==
    Returned(HIERARCHICAL) =>
        /\ Elements(frame_pairs) =
               {p \in (0..num_frames - 1) \X (0..num_frames - 1) :
                   \E level \in 0..TopLevel(num_frames) :
                       /\ p[2] = p[1] + 2^level
                       /\ p[1] % (2^level) = 0}
        /\ NoDuplicates(frame_pairs)
        /\ \A k \in 0..num_frames - 2 : <<k, k + 1>> \in Elements(frame_pairs)
        /\ \A k \in DOMAIN frame_pairs : frame_pairs[k][2] < num_frames

C3_Witness ==
    /\ Returned(HIERARCHICAL) /\ num_frames = 9
    /\ {<<0, 1>>, <<4, 6>>, <<4, 8>>, <<0, 8>>} \subseteq Elements(frame_pairs)
    /\ <<6, 8>> \in Elements(frame_pairs) /\ <<8, 9>> \notin Elements(frame_pairs)

\* C4: for every N >= 2, CONSECUTIVE sampling returns exactly the N-1 pairs (k, k+1),
\* k = 0..N-2, in increasing order of k; for N = 5: [(0,1),(1,2),(2,3),(3,4)].
C4_ConsecutiveInOrder ==
    Returned(CONSECUTIVE) =>
        /\ frame_pairs = [k \in 1..num_frames - 1 |-> <<k - 1, k>>]
        /\ num_frames = 5 => frame_pairs = << <<0, 1>>, <<1, 2>>, <<2, 3>>, <<3, 4>> >>

C4_Witness == Returned(CONSECUTIVE) /\ num_frames = 5 /\ Len(frame_pairs) = 4

====
